---- MODULE Spec2Model ----
(***************************************************************************)
(* Chunked-upload reassembly engine of PilotForce                          *)
(* (src/reassembleGeoTiffChunks.py): the object store, the session         *)
(* registry (GeoTiffChunks table), the Resources table and the Lambda      *)
(* invocations that run against them, step by step.                        *)
(*                                                                         *)
(* Object keys are sequences of tokens, e.g.                                *)
(*   "b1/s1/scan.tif.part0" = <<"b1","/","s1","/","scan",".tif",".","part","0">> *)
(* so that Python's `x in key`, startswith and endswith become contiguous  *)
(* sub-sequence tests.  A store call on one object (head, get, copy)       *)
(* fails when the object is absent or not accessible yet; a call that      *)
(* names no chunk (list, create/complete/abort upload, put, table writes)  *)
(* fails nondeterministically.                                             *)
(***************************************************************************)
EXTENDS Integers, Sequences, FiniteSets, TLC

\* ------------------------------------------------------------------ bounds

\* Largest totalChunks a manifest declares; chunk parts are 0..MaxChunks-1.
MaxChunks == 2

\* The clock stops advancing here (seconds).
MaxClock == 125

\* ------------------------------------------------------- program constants

\* cutoff_time = int(time.time()) - 120
StalenessWindow == 120

\* min_part_size = 5 * 1024 * 1024, counted in MiB
MinPartSizeMiB == 5

\* ------------------------------------------------------------ the universe

Booking == "b1"

Sessions == {"s1"}

\* The sessions of the booking when the sweeper has several candidates
SweptSessions == {"s1", "s2"}

Invocations == {"i1", "i2"}

\* The clock advances in steps of just over the staleness window.
TickSeconds == StalenessWindow + 1

\* Chunk sizes an uploader may split a file by, in MiB; the last chunk is the rest.
ChunkSizes == {3, 6}

LastChunkSize == 1

DigitVal(t) ==
    CASE t = "0" -> 0
      [] t = "1" -> 1
      [] t = "2" -> 2
      [] t = "3" -> 3
      [] OTHER -> -1

IsDigit(t) == DigitVal(t) >= 0

DigitTok(n) ==
    CASE n = 0 -> "0"
      [] n = 1 -> "1"
      [] n = 2 -> "2"
      [] OTHER -> "3"

\* str.lower() on one token
Lower(t) == IF t = "PART" THEN "part" ELSE t

LowerKey(key) == [k \in 1..Len(key) |-> Lower(key[k])]

\* Python `pat in key`
Contains(key, pat) ==
    \E k \in 0..(Len(key) - Len(pat)) : SubSeq(key, k + 1, k + Len(pat)) = pat

StartsWith(key, pre) ==
    Len(key) >= Len(pre) /\ SubSeq(key, 1, Len(pre)) = pre

EndsWith(key, suf) ==
    Len(key) >= Len(suf) /\ SubSeq(key, Len(key) - Len(suf) + 1, Len(key)) = suf

ManifestSuffix == <<"_manifest.json">>

\* originalFileName of the uploader's manifests
OriginalFileName == <<"scan", ".tif">>

\* The tokens of a session id
SidTokens(s) == <<s>>

\* "{booking}/{session}/scan.tif.part{p}"
ChunkKey(s, p) ==
    <<Booking, "/">> \o SidTokens(s) \o <<"/">> \o OriginalFileName \o <<".", "part", DigitTok(p)>>

\* "{booking}/{session}_manifest.json"
ManifestKey(s) == <<Booking, "/">> \o SidTokens(s) \o ManifestSuffix

ChunkKeys == {ChunkKey(s, p) : s \in Sessions, p \in 0..(MaxChunks - 1)}

SweptChunkKeys == {ChunkKey(s, p) : s \in SweptSessions, p \in 0..(MaxChunks - 1)}

\* "{booking}/scan_{session}.tif.part0": a chunk that carries the session id in
\* its file name (discovery's filename containment)
FileStyleKey(s) ==
    <<Booking, "/", "scan", "_">> \o SidTokens(s) \o <<".tif", ".", "part", "0">>

\* "{booking}/{session}2/scan.tif.part0": a chunk of the session whose id is
\* the given one followed by "2"
LongerIdKey(s) ==
    <<Booking, "/">> \o SidTokens(s) \o <<"2", "/">> \o OriginalFileName \o <<".", "part", "0">>

\* "{booking}/{base}.part{p}": a chunk that names no session
BareKey(base, p) == <<Booking, "/", base, ".", "part", DigitTok(p)>>

\* The chunks uploaded for a session, under either naming
OwnKeys(s) == {ChunkKey(s, p) : p \in 0..(MaxChunks - 1)} \cup {FileStyleKey(s)}

\* Chunks of other uploads of the same booking
OtherSessionKeys == {LongerIdKey(s) : s \in Sessions}

BareKeys == {BareKey("img", 0), BareKey("img", 1), BareKey("other", 0)}

\* Chunks in the folders of other bookings, for the same session id:
\* "b2/s1/scan.tif.part0", "b12/s1/scan.tif.part1" (a booking whose id starts
\* with this one's) and "b2/b1/s1/scan.tif.part0" (this booking's path inside
\* another's folder)
ForeignKeys ==
    {<<"b2", "/", s, "/">> \o OriginalFileName \o <<".", "part", "0">> : s \in Sessions}
    \cup {<<Booking, "2", "/", s, "/">> \o OriginalFileName \o <<".", "part", "1">> : s \in Sessions}
    \cup {<<"b2", "/", Booking, "/", s, "/">> \o OriginalFileName \o <<".", "part", "0">> : s \in Sessions}

\* ------------------------------------------------------------------ state

VARIABLES
    objects,      \* keys present in the bucket (chunks, manifests, outputs)
    hidden,       \* listed keys whose head/get/copy still fails
    removed,      \* chunk keys that retention has deleted
    chunkSize,    \* the uploader's chunk size, in MiB
    faults,       \* whether calls to the store and the tables can raise
    manifestDoc,  \* per session: what the manifest blob holds
    registry,     \* GeoTiffChunks table: per session, the "{sessionId}_manifest" item
    resources,    \* Resources table: set of items
    uploads,      \* multipart uploads, by upload id (the invocation that opened it)
    merged,       \* bytes written to each invocation's output key, as a chunk sequence
    clock,        \* int(time.time())
    inv           \* the invocations: position and locals

storeVars == <<objects, hidden, removed, chunkSize, faults, manifestDoc>>

tableVars == <<registry, resources>>

vars == <<objects, hidden, removed, chunkSize, faults, manifestDoc, registry, resources, uploads, merged, clock, inv>>

\* A manifest blob: nothing parseable, or {sessionId, originalFileName, totalChunks}.
BadDoc == [valid |-> FALSE, totalChunks |-> 0]

\* The manifests an uploader writes: they count every part, or miss the last one.
ManifestDocs ==
    {[valid |-> TRUE, totalChunks |-> n] : n \in {m \in {MaxChunks - 1, MaxChunks} : m >= 1}}

\* Python None for a manifest dict
NoManifest == [sessionId |-> "none", originalFileName |-> <<>>, totalChunks |-> 0]

\* get_item without 'Item'
NoItem ==
    [status |-> "none", shaped |-> FALSE, totalChunks |-> 0, chunksUploaded |-> 0,
     lastUpdated |-> 0, finalResourceId |-> "none", reassembledUrl |-> "none",
     errorMessage |-> "none"]

NoUpload == [state |-> "none", abortCalled |-> FALSE]

\* What lambda_handler looks at in an event: whether it is a JSON object, which
\* of the keys 'body', 'Records', 'detail' it has, and what 'detail-type' holds
\* ("absent": no such key, "null": a value that is not a string)
Event(b, r, d, t) ==
    [mapping |-> TRUE, body |-> b, records |-> r, detail |-> d, detailType |-> t]

\* The JSON payload null
NullEvent ==
    [mapping |-> FALSE, body |-> FALSE, records |-> FALSE, detail |-> FALSE,
     detailType |-> "absent"]

DetailTypes == {"absent", "Scheduled Event", "other", "null"}

EventShapes ==
    {NullEvent} \cup
    {Event(b, r, d, t) : b \in BOOLEAN, r \in BOOLEAN, d \in BOOLEAN, t \in DetailTypes}

\* An invocation started without going through lambda_handler
NoDispatch == [handler |-> "none", event |-> NullEvent]

\* kind: "request" (one direct request or storage event) or "sweep" (the sweeper's loop)
\* dispatch: the event lambda_handler was given and the branch it took
IdleInv ==
    [kind |-> "none", pc |-> "idle", session |-> "none", manifest |-> NoManifest,
     todo |-> <<>>, chunk_keys |-> {}, listed |-> FALSE, sorted_chunks |-> <<>>,
     clean_filename |-> <<>>, result |-> "none", dispatch |-> NoDispatch]

\* How a boto3 call may end: TRUE it returns, FALSE it raises
Outcomes == IF faults THEN BOOLEAN ELSE {TRUE}

Init ==
    /\ objects = {}
    /\ hidden = {}
    /\ removed = {}
    /\ chunkSize \in ChunkSizes
    /\ faults = TRUE
    /\ manifestDoc = [s \in Sessions |-> BadDoc]
    /\ registry = [s \in Sessions |-> NoItem]
    /\ resources = {}
    /\ uploads = [i \in Invocations |-> NoUpload]
    /\ merged = [i \in Invocations |-> <<>>]
    /\ clock = 0
    /\ inv = [i \in Invocations |-> IdleInv]

\* ------------------------------------------------------------ environment

\* The uploader writes the manifest blob of a session (once).
PutManifest(s, doc) ==
    /\ ManifestKey(s) \notin objects
    /\ objects' = objects \cup {ManifestKey(s)}
    /\ manifestDoc' = [manifestDoc EXCEPT ![s] = doc]
    /\ UNCHANGED <<hidden, removed, chunkSize, faults, registry, resources, uploads, merged, clock, inv>>

\* The uploader writes one chunk; it may not be readable at once.
UploadChunk(k, visible) ==
    /\ k \notin objects
    /\ k \notin removed
    /\ objects' = objects \cup {k}
    /\ hidden' = IF visible THEN hidden ELSE hidden \cup {k}
    /\ UNCHANGED <<removed, chunkSize, faults, manifestDoc, registry, resources, uploads, merged, clock, inv>>

\* A written chunk becomes readable.
RevealChunk(k) ==
    /\ k \in hidden
    /\ hidden' = hidden \ {k}
    /\ UNCHANGED <<objects, removed, chunkSize, faults, manifestDoc, registry, resources, uploads, merged, clock, inv>>

\* Retention deletes a session's oldest chunk first; it gets as far as part 0.
RemovableKeys == {ChunkKey(s, 0) : s \in Sessions}

\* Retention outside this subsystem deletes a chunk object, for good.
RemoveChunk(k) ==
    /\ k \in objects
    /\ objects' = objects \ {k}
    /\ hidden' = hidden \ {k}
    /\ removed' = removed \cup {k}
    /\ UNCHANGED <<chunkSize, faults, manifestDoc, registry, resources, uploads, merged, clock, inv>>

Tick ==
    /\ clock + TickSeconds <= MaxClock
    /\ clock' = clock + TickSeconds
    /\ UNCHANGED <<objects, hidden, removed, chunkSize, faults, manifestDoc, registry, resources, uploads, merged, inv>>

\* ---------------------------------------------------------- pure helpers

Min(S) == CHOOSE x \in S : \A y \in S : x <= y

\* Tokens in ASCII order, for Python's string comparison in sorted()
TokenOrder ==
    <<".", ".tif", "/", "0", "1", "2", "3", "PART", "_", "_manifest.json", "b1",
      "b2", "i1", "i2", "img", "other", "part", "reassembled_", "s1", "s2", "scan">>

TokRank(t) == CHOOSE k \in 1..Len(TokenOrder) : TokenOrder[k] = t

KeyLess(a, b) ==
    LET n == IF Len(a) < Len(b) THEN Len(a) ELSE Len(b)
        diff == {k \in 1..n : a[k] # b[k]}
    IN IF diff = {} THEN Len(a) < Len(b)
       ELSE TokRank(a[Min(diff)]) < TokRank(b[Min(diff)])

\* sorted(chunk_keys)[0] and sorted(chunk_keys)[-1]
FirstKey(S) == CHOOSE k \in S : \A o \in S \ {k} : KeyLess(k, o)

LastKey(S) == CHOOSE k \in S : \A o \in S \ {k} : KeyLess(o, k)

\* a filter that lets every key through
NoKeyIsManifest(key) == FALSE

\* "_manifest.json" not in obj['Key'], negated
IsManifestKey(key) == Contains(key, ManifestSuffix)

\* key.endswith('_manifest.json'): the key names a manifest blob
IsManifestFile(key) == EndsWith(key, ManifestSuffix)

\* a listing of the whole bucket, whatever the prefix
ListWholeBucket(objs, prefix) == objs

\* paginate(Prefix=prefix) over the bucket
ListPrefix(objs, prefix) == {k \in objs : StartsWith(k, prefix)}

\* head_object(Key=k) succeeds
Accessible(k) == k \in objects /\ k \notin hidden

\* The uploader attaches no 'timestamp' metadata to chunks.
TagOf(k) == "none"

\* check_chunks_availability: the keys counted under "{booking}/{session}"
AvailabilityCandidates(objs, s) ==
    {k \in ListPrefix(objs, <<Booking, "/">> \o SidTokens(s)) :
        ~IsManifestKey(k) /\ Contains(k, <<"part">>)}

\* reassemble_chunks_from_manifest: path and filename containment
PathChunks(all, s) ==
    {k \in all : Contains(k, <<Booking, "/">> \o SidTokens(s)) /\ ~IsManifestKey(k)}

FilenameChunks(all, s) ==
    {k \in all : Contains(k, SidTokens(s)) /\ ~IsManifestKey(k)}

PartPatternChunks(all) ==
    {k \in all : Contains(LowerKey(k), <<".", "part">>) /\ ~IsManifestKey(k)}

\* reassemble_chunks_from_manifest: chunk_keys after the fallback
ManifestDiscovery(all, s) ==
    LET found == PathChunks(all, s) \cup FilenameChunks(all, s)
    IN IF found = {} /\ PartPatternChunks(all) # {} THEN PartPatternChunks(all) ELSE found

\* reassemble_chunks_by_session, approach 3: head_object per "part" object
MetadataChunks(all, s) ==
    {k \in all : /\ ~IsManifestKey(k)
                 /\ Contains(LowerKey(k), <<"part">>)
                 /\ Accessible(k)
                 /\ TagOf(k) = s}

\* re.search(r'(.+)\.part\d+$', key.lower())
HasPartSuffix(key) ==
    LET l == LowerKey(key)
    IN /\ Len(l) >= 4
       /\ l[Len(l) - 2] = "."
       /\ l[Len(l) - 1] = "part"
       /\ IsDigit(l[Len(l)])

BaseName(key) == SubSeq(LowerKey(key), 1, Len(key) - 3)

\* chunk_groups and the groups max() may return
BestGroups(all) ==
    LET parts == {k \in all : Contains(LowerKey(k), <<".", "part">>) /\ HasPartSuffix(k)}
        group(b) == {k \in parts : BaseName(k) = b}
        bases == {BaseName(k) : k \in parts}
    IN {group(b) : b \in {c \in bases :
            \A d \in bases : Cardinality(group(d)) <= Cardinality(group(c))}}

\* reassemble_chunks_by_session: the chunk sets discovery may return
SessionDiscovery(all, s) ==
    LET found == PathChunks(all, s) \cup FilenameChunks(all, s) \cup MetadataChunks(all, s)
    IN IF found # {} THEN {found}
       ELSE IF BestGroups(all) # {} THEN BestGroups(all) ELSE {{}}

\* extract_part_num: the first of \.part(\d+)$, _part(\d+)_, part(\d+); else 0
extract_part_num(key) ==
    LET l == LowerKey(key)
        n == Len(l)
        p2 == {k \in 1..(n - 3) :
                 l[k] = "_" /\ l[k + 1] = "part" /\ IsDigit(l[k + 2]) /\ l[k + 3] = "_"}
        p3 == {k \in 1..(n - 1) : l[k] = "part" /\ IsDigit(l[k + 1])}
    IN IF HasPartSuffix(key) THEN DigitVal(l[n])
       ELSE IF p2 # {} THEN DigitVal(l[Min(p2) + 2])
       ELSE IF p3 # {} THEN DigitVal(l[Min(p3) + 1])
       ELSE 0

\* insert x after the last element whose part number is not larger (sq and x
\* are bound once, so that each is evaluated a single time)
RECURSIVE InsertByPart(_, _)
InsertByPart(sq, x) ==
    CHOOSE out \in
        {IF s = <<>> THEN <<y>>
         ELSE IF extract_part_num(s[Len(s)]) <= extract_part_num(y) THEN Append(s, y)
         ELSE Append(InsertByPart(SubSeq(s, 1, Len(s) - 1), y), s[Len(s)]) :
            s \in {sq}, y \in {x}} : TRUE

\* chunk_keys used in the order they arrive, unsorted
KeepInputOrder(sq) == sq

\* sorted(chunk_keys, key=extract_part_num): stable
RECURSIVE SortByPart(_)
SortByPart(sq) ==
    CHOOSE out \in
        {IF s = <<>> THEN <<>>
         ELSE InsertByPart(SortByPart(SubSeq(s, 1, Len(s) - 1)), s[Len(s)]) : s \in {sq}} : TRUE

\* list(set(...)): every order of the set's elements
RECURSIVE ListsOf(_)
ListsOf(S) ==
    IF S = {} THEN {<<>>}
    ELSE UNION {{<<x>> \o r : r \in ListsOf(S \ {x})} : x \in S}

\* set(list)
SetOf(sq) == {sq[n] : n \in DOMAIN sq}

\* reassemble_chunks_by_session / _from_manifest on a listing (a list of keys, in
\* the order the pages return them): the list comprehensions
PathChunksList(listing, s) ==
    SelectSeq(listing, LAMBDA k : Contains(k, <<Booking, "/">> \o SidTokens(s)) /\ ~IsManifestKey(k))

FilenameChunksList(listing, s) ==
    SelectSeq(listing, LAMBDA k : Contains(k, SidTokens(s)) /\ ~IsManifestKey(k))

MetadataChunksList(listing, s) ==
    SelectSeq(listing, LAMBDA k : /\ ~IsManifestKey(k)
                                  /\ Contains(LowerKey(k), <<"part">>)
                                  /\ Accessible(k)
                                  /\ TagOf(k) = s)

PartPatternChunksList(listing) ==
    SelectSeq(listing, LAMBDA k : Contains(LowerKey(k), <<".", "part">>) /\ ~IsManifestKey(k))

\* chunk_groups: the base names in the order the dict got them, and a group's list
GroupBases(listing) ==
    LET parts == SelectSeq(listing, LAMBDA k : Contains(LowerKey(k), <<".", "part">>)
                                                /\ HasPartSuffix(k))
    IN [n \in 1..Len(parts) |-> BaseName(parts[n])]

GroupOf(listing, b) ==
    SelectSeq(listing, LAMBDA k : /\ Contains(LowerKey(k), <<".", "part">>)
                                  /\ HasPartSuffix(k)
                                  /\ BaseName(k) = b)

\* max(chunk_groups.items(), key=lambda x: len(x[1])): the first of the largest
\* groups in the dict's (insertion) order
BestMatch(listing) ==
    LET bases == GroupBases(listing)
        size(n) == Len(GroupOf(listing, bases[n]))
    IN IF bases = <<>> THEN <<>>
       ELSE LET first == Min({n \in 1..Len(bases) :
                                 \A m \in 1..Len(bases) : size(m) <= size(n)})
            IN GroupOf(listing, bases[first])

\* reassemble_chunks_by_session: the lists chunk_keys may be for a listing
SessionChunkLists(listing, s) ==
    LET found == SetOf(PathChunksList(listing, s) \o FilenameChunksList(listing, s)
                         \o MetadataChunksList(listing, s))
    IN IF found # {} THEN ListsOf(found) ELSE {BestMatch(listing)}

\* reassemble_chunks_from_manifest: the lists chunk_keys may be for a listing
ManifestChunkLists(listing, s) ==
    LET found == SetOf(PathChunksList(listing, s) \o FilenameChunksList(listing, s))
    IN IF found = {} /\ PartPatternChunksList(listing) # <<>>
       THEN {PartPatternChunksList(listing)}
       ELSE ListsOf(found)

\* clean_filename: cut at ".part", append ".tif" if no tif extension
CleanFilename(orig) ==
    LET l == LowerKey(orig)
        at == {k \in 1..(Len(l) - 1) : l[k] = "." /\ l[k + 1] = "part"}
        cut == IF at # {} /\ Min(at) > 1 THEN SubSeq(orig, 1, Min(at) - 1) ELSE orig
    IN IF cut # <<>> /\ Lower(cut[Len(cut)]) \in {".tif", ".tiff"} THEN cut
       ELSE Append(cut, ".tif")

\* output_key = f"{booking_id}/reassembled_{resource_id}_{clean_filename}"
OutputKey(rid, clean) == <<Booking, "/", "reassembled_", rid, "_">> \o clean

\* a size test that does not exempt the last chunk
AnyChunkSmall(sizes) ==
    /\ {k \in 1..Len(sizes) : sizes[k] < MinPartSizeMiB} # {}
    /\ Len(sizes) > 1

\* small_chunks and len(sorted_chunks) > 1
UseDirectPath(sizes) ==
    /\ {k \in 1..Len(sizes) : k < Len(sizes) /\ sizes[k] < MinPartSizeMiB} # {}
    /\ Len(sizes) > 1

\* ContentLength of a key: a chunk's size, an output's merged size, else a small blob
ChunkSize(k) == IF k[Len(k)] = DigitTok(MaxChunks - 1) THEN LastChunkSize ELSE chunkSize

RECURSIVE SumSizes(_)
SumSizes(sq) == IF sq = <<>> THEN 0 ELSE ChunkSize(Head(sq)) + SumSizes(Tail(sq))

SizeOf(k) ==
    IF k \in SweptChunkKeys THEN ChunkSize(k)
    ELSE IF StartsWith(k, <<Booking, "/", "reassembled_">>) /\ k[4] \in Invocations
         THEN SumSizes(SelectSeq(merged[k[4]], LAMBDA c : c \in SweptChunkKeys))
    ELSE 1

\* filename = chunk_keys[0].split('/')[-1]; re.sub(r'\.part\d+$', '', filename)
FakeFileName(key) ==
    LET slashes == {k \in 1..Len(key) : key[k] = "/"}
        from == IF slashes = {} THEN 1 ELSE (CHOOSE k \in slashes : \A j \in slashes : j <= k) + 1
        name == SubSeq(key, from, Len(key))
    IN IF Len(name) >= 3 /\ name[Len(name) - 2] = "." /\ name[Len(name) - 1] = "part"
          /\ IsDigit(name[Len(name)])
       THEN SubSeq(name, 1, Len(name) - 3)
       ELSE name

\* ------------------------------------------------------------ invocations

InvOrder == <<"i1", "i2">>

InvRank(i) == CHOOSE k \in 1..Len(InvOrder) : InvOrder[k] = i

\* Invocation ids are fresh and interchangeable: they are handed out in order.
CanStart(i) ==
    /\ inv[i].pc = "idle"
    /\ \A j \in Invocations : InvRank(j) < InvRank(i) => inv[j].pc # "idle"

\* A failure that escapes the sweep's loop: the rest of the candidates is dropped
FinishEndsSweep(r, result) ==
    IF r.kind = "sweep" /\ result # "failure"
    THEN [IdleInv EXCEPT !.kind = "sweep", !.pc = "sweep_next", !.session = r.session,
                         !.todo = r.todo, !.result = result, !.dispatch = r.dispatch]
    ELSE [IdleInv EXCEPT !.pc = "done", !.session = r.session, !.result = result,
                         !.dispatch = r.dispatch]

\* The handler (or the sweep's loop body) returns: locals are dropped.
Finish(r, result) ==
    IF r.kind = "sweep"
    THEN [IdleInv EXCEPT !.kind = "sweep", !.pc = "sweep_next", !.session = r.session,
                         !.todo = r.todo, !.result = result, !.dispatch = r.dispatch]
    ELSE [IdleInv EXCEPT !.pc = "done", !.session = r.session, !.result = result,
                         !.dispatch = r.dispatch]

\* download_and_parse_manifest: None when get_object fails (getOk = FALSE), the blob
\* is missing or it does not parse
DownloadManifest(s, getOk) ==
    IF getOk /\ ManifestKey(s) \in objects /\ manifestDoc[s].valid
    THEN [sessionId |-> s, originalFileName |-> OriginalFileName,
          totalChunks |-> manifestDoc[s].totalChunks]
    ELSE NoManifest

\* register_chunks_from_manifest: the item put_item writes
RegisteredItem(m) ==
    [status |-> "pending", shaped |-> TRUE, totalChunks |-> m.totalChunks,
     chunksUploaded |-> 0, lastUpdated |-> clock, finalResourceId |-> "none",
     reassembledUrl |-> "none", errorMessage |-> "none"]

\* update_item SET status = failed, errorMessage, failedAt (creates the item if absent)
MarkFailed(item, msg) == [item EXCEPT !.status = "failed", !.errorMessage = msg]

\* an update that sets the status and the resource id, and leaves the URL to a
\* second call
MarkCompletedIdOnly(item, rid) ==
    [item EXCEPT !.status = "completed", !.finalResourceId = rid]

\* update_item SET status = completed, finalResourceId, reassembledUrl, completedAt
MarkCompleted(item, rid) ==
    [item EXCEPT !.status = "completed", !.finalResourceId = rid, !.reassembledUrl = rid]

\* reassemble_chunks_from_manifest: listing, discovery, and its except branch,
\* run by invocation i whose locals are r
FromManifestStep(i, r) ==
    LET s == r.session
        all == ListPrefix(objects, <<Booking, "/">>)
        keys == ManifestDiscovery(all, s)
    IN /\ \E listOk \in Outcomes, updOk \in Outcomes :
            IF listOk /\ keys # {}
            THEN /\ updOk
                 /\ inv' = [inv EXCEPT ![i] =
                               [r EXCEPT !.pc = "known_keys", !.chunk_keys = keys,
                                         !.listed = (PathChunks(all, s) \cup FilenameChunks(all, s) = {})]]
                 /\ UNCHANGED registry
            ELSE /\ registry' = IF updOk
                                THEN [registry EXCEPT ![s] = MarkFailed(@, "str(e)")]
                                ELSE registry
                 /\ inv' = [inv EXCEPT ![i] = Finish(r, "failure")]
       /\ UNCHANGED <<objects, hidden, removed, chunkSize, faults, manifestDoc, resources, uploads, merged, clock>>

\* reassemble_chunks_by_session: listing, discovery, the fake manifest
BySessionStep(i, r) ==
    LET s == r.session
        all == ListPrefix(objects, <<Booking, "/">>)
    IN /\ \E listOk \in Outcomes, keys \in SessionDiscovery(all, s) :
            IF listOk /\ keys # {}
            THEN \E first \in keys :
                   inv' = [inv EXCEPT ![i] =
                              [r EXCEPT !.pc = "known_keys", !.chunk_keys = keys,
                                        !.listed = FALSE,
                                        !.manifest = [sessionId |-> s,
                                                      originalFileName |-> FakeFileName(first),
                                                      totalChunks |-> Cardinality(keys)]]]
            ELSE inv' = [inv EXCEPT ![i] = Finish(r, "failure")]
       /\ UNCHANGED <<objects, hidden, removed, chunkSize, faults, manifestDoc, registry, resources, uploads, merged, clock>>

\* a probe failure that is let through as an error of the handler
ProbeFailureRaises(r) == Finish(r, "failure")

\* check_chunks_availability, the except around the two head_object probes:
\* return False, and the caller's not-ready result
ProbeFailed(r) == Finish(r, "not_ready")

\* check_chunks_availability, and the caller's branch on its result
CheckStep(i, r) ==
    LET s == r.session
        total == r.manifest.totalChunks
        item == registry[s]
        keys == AvailabilityCandidates(objects, s)
        count == Cardinality(keys)
        probeOk == Accessible(FirstKey(keys)) /\ Accessible(LastKey(keys))
        ready == [r EXCEPT !.pc = "from_manifest"]
        notReady == Finish(r, "not_ready")
    IN /\ \E listOk \in Outcomes :
            IF item.status = "none"
            THEN inv' = [inv EXCEPT ![i] = notReady] /\ UNCHANGED registry
            ELSE IF item.chunksUploaded = total
            THEN inv' = [inv EXCEPT ![i] = ready] /\ UNCHANGED registry
            ELSE IF ~listOk
            THEN inv' = [inv EXCEPT ![i] = notReady] /\ UNCHANGED registry
            ELSE IF count >= total /\ keys # {} /\ ~probeOk
            THEN inv' = [inv EXCEPT ![i] = ProbeFailed(r)] /\ UNCHANGED registry
            ELSE /\ registry' = [registry EXCEPT ![s] =
                                    [@ EXCEPT !.chunksUploaded = count, !.lastUpdated = clock]]
                 /\ inv' = [inv EXCEPT ![i] = IF count >= total THEN ready ELSE notReady]
       /\ UNCHANGED <<objects, hidden, removed, chunkSize, faults, manifestDoc, resources, uploads, merged, clock>>

\* handle_api_request with bookingId and sessionId, with or without manifestKey
HandleApiRequest(i, s, withKey, base) ==
    /\ CanStart(i)
    /\ \E getOk \in Outcomes :
         LET m == IF withKey THEN DownloadManifest(s, getOk) ELSE NoManifest
             r == [base EXCEPT !.kind = "request", !.session = s, !.manifest = m]
         IN IF m # NoManifest THEN FromManifestStep(i, r) ELSE BySessionStep(i, r)

TriggerApi(i, s, withKey) == HandleApiRequest(i, s, withKey, IdleInv)

\* handle_s3_trigger up to and including register_chunks_from_manifest; the
\* 404 'Manifest file not found or invalid' is the result "not_found"
HandleS3Trigger(i, s, base) ==
    /\ CanStart(i)
    /\ ManifestKey(s) \in objects
    /\ \E getOk \in Outcomes, putOk \in Outcomes :
         LET m == DownloadManifest(s, getOk)
             r == [base EXCEPT !.kind = "request", !.session = s]
         IN IF m = NoManifest
            THEN /\ putOk
                 /\ inv' = [inv EXCEPT ![i] = Finish(r, "not_found")]
                 /\ UNCHANGED registry
            ELSE IF putOk
            THEN /\ registry' = [registry EXCEPT ![s] = RegisteredItem(m)]
                 /\ inv' = [inv EXCEPT ![i] = [r EXCEPT !.pc = "check", !.manifest = m]]
            ELSE /\ inv' = [inv EXCEPT ![i] = Finish(r, "failure")]
                 /\ UNCHANGED registry
    /\ UNCHANGED <<objects, hidden, removed, chunkSize, faults, manifestDoc, resources, uploads, merged, clock>>

TriggerS3(i, s) == HandleS3Trigger(i, s, IdleInv)

\* handle_s3_trigger: check_chunks_availability and the branch on it
CheckAvailability(i) ==
    /\ inv[i].pc = "check"
    /\ CheckStep(i, inv[i])

\* reassemble_chunks_from_manifest, called once the availability check said ready
FromManifest(i) ==
    /\ inv[i].pc = "from_manifest"
    /\ FromManifestStep(i, inv[i])

\* a scan that filters on a status value no item ever has
CandidatesOfNoStatus ==
    {s \in DOMAIN registry : /\ registry[s].status = "ready"
                      /\ registry[s].lastUpdated < clock - StalenessWindow}

\* a scan that filters on the status alone
CandidatesOfAnyAge == {s \in DOMAIN registry : registry[s].status = "pending"}

\* find_candidate_sessions: the scan's filter
Candidates ==
    {s \in DOMAIN registry : /\ registry[s].status = "pending"
                      /\ registry[s].lastUpdated < clock - StalenessWindow}

\* handle_scheduled_check: find_candidate_sessions
HandleScheduledCheck(i, base) ==
    /\ CanStart(i)
    /\ \E scanOk \in Outcomes :
         \E order \in ListsOf(IF scanOk THEN Candidates ELSE {}) :
              inv' = [inv EXCEPT ![i] =
                         [base EXCEPT !.kind = "sweep", !.pc = "sweep_next", !.todo = order]]
    /\ UNCHANGED <<objects, hidden, removed, chunkSize, faults, manifestDoc, registry, resources, uploads, merged, clock>>

SweepScan(i) == HandleScheduledCheck(i, IdleInv)

\* handle_scheduled_check: one turn of the loop, up to the availability check
\* (manifest found) or the session-only discovery (no manifest).  A sweep that
\* had no candidate returns having touched nothing: its invocation id was never
\* used, so the slot is free again.
SweepNext(i) ==
    /\ inv[i].pc = "sweep_next"
    /\ IF inv[i].todo = <<>>
       THEN /\ inv' = [inv EXCEPT ![i] =
                          IF inv[i].result = "none"
                          THEN IdleInv
                          ELSE [IdleInv EXCEPT !.pc = "done", !.session = inv[i].session,
                                               !.result = inv[i].result,
                                               !.dispatch = inv[i].dispatch]]
            /\ UNCHANGED <<objects, hidden, removed, chunkSize, faults, manifestDoc, registry, resources, uploads, merged, clock>>
       ELSE \E getOk \in Outcomes :
              LET s == Head(inv[i].todo)
                  m == DownloadManifest(s, getOk)
                  r == [inv[i] EXCEPT !.session = s, !.todo = Tail(inv[i].todo),
                                      !.manifest = m, !.result = "none"]
              IN IF m # NoManifest THEN CheckStep(i, r) ELSE BySessionStep(i, r)

\* The orders in which chunk_keys may reach the sort: the listing's order for the
\* part-pattern fallback, any order for list(set(...)).
RECURSIVE ListingOrder(_)
ListingOrder(S) ==
    IF S = {} THEN <<>> ELSE <<FirstKey(S)>> \o ListingOrder(S \ {FirstKey(S)})

InputOrders(keys, listed) == IF listed THEN {ListingOrder(keys)} ELSE ListsOf(keys)

\* reassemble_chunks_with_known_keys up to create_multipart_upload
KnownKeys(i) ==
    /\ inv[i].pc = "known_keys"
    /\ LET keys == inv[i].chunk_keys
           clean == CleanFilename(inv[i].manifest.originalFileName)
       IN \E input \in InputOrders(keys, inv[i].listed), createOk \in Outcomes :
          \E sorted \in {SortByPart(input)} :
          \E sizes \in {[n \in 1..Len(sorted) |-> SizeOf(sorted[n])]} :
               IF \E k \in keys : ~Accessible(k)
               THEN /\ createOk
                    /\ inv' = [inv EXCEPT ![i] = Finish(@, "failure")]
                    /\ UNCHANGED uploads
               ELSE IF UseDirectPath(sizes)
               THEN /\ createOk
                    /\ inv' = [inv EXCEPT ![i] =
                                  [@ EXCEPT !.pc = "direct", !.sorted_chunks = sorted,
                                            !.clean_filename = clean]]
                    /\ UNCHANGED uploads
               ELSE IF createOk
               THEN /\ uploads' = [uploads EXCEPT ![i] = [state |-> "open", abortCalled |-> FALSE]]
                    /\ inv' = [inv EXCEPT ![i] =
                                  [@ EXCEPT !.pc = "mp_copy", !.sorted_chunks = sorted,
                                            !.clean_filename = clean]]
               ELSE /\ inv' = [inv EXCEPT ![i] = Finish(@, "failure")]
                    /\ UNCHANGED uploads
    /\ UNCHANGED <<objects, hidden, removed, chunkSize, faults, manifestDoc, registry, resources, merged, clock>>

\* a merge that cleans up after itself: the inputs are deleted
PutOutputDropsChunks(objs, out, chunks) == (objs \ SetOf(chunks)) \cup {out}

\* complete_multipart_upload / put_object: the only write to the bucket, the
\* output key; the chunks that went into it are left where they are
PutOutput(objs, out, chunks) == objs \cup {out}

\* the upload_part_copy loop (parts 1..n in sorted order), then complete_multipart_upload
MpCopy(i) ==
    /\ inv[i].pc = "mp_copy"
    /\ \E completeOk \in Outcomes :
         IF /\ \A n \in 1..Len(inv[i].sorted_chunks) : Accessible(inv[i].sorted_chunks[n])
            /\ completeOk
         THEN /\ uploads' = [uploads EXCEPT ![i].state = "completed"]
              /\ objects' = PutOutput(objects, OutputKey(i, inv[i].clean_filename),
                                       inv[i].sorted_chunks)
              /\ merged' = [merged EXCEPT ![i] = inv[i].sorted_chunks]
              /\ inv' = [inv EXCEPT ![i].pc = "finalize"]
         ELSE /\ inv' = [inv EXCEPT ![i].pc = "mp_abort"]
              /\ UNCHANGED <<objects, uploads, merged>>
    /\ UNCHANGED <<hidden, removed, chunkSize, faults, manifestDoc, registry, resources, clock>>

\* An except branch that re-raises without calling abort_multipart_upload
MpAbortNotIssued(i) ==
    /\ inv[i].pc = "mp_abort"
    /\ inv' = [inv EXCEPT ![i] = Finish(@, "failure")]
    /\ UNCHANGED <<objects, hidden, removed, chunkSize, faults, manifestDoc, registry, resources, uploads, merged, clock>>

\* the except branch: abort_multipart_upload, then the failure result
MpAbort(i) ==
    /\ inv[i].pc = "mp_abort"
    /\ \E ok \in Outcomes :
         uploads' = [uploads EXCEPT ![i] =
                        [state |-> IF ok THEN "aborted" ELSE @.state, abortCalled |-> TRUE]]
    /\ inv' = [inv EXCEPT ![i] = Finish(@, "failure")]
    /\ UNCHANGED <<objects, hidden, removed, chunkSize, faults, manifestDoc, registry, resources, merged, clock>>

\* reassemble_by_direct_download: get every chunk, join, put_object
Direct(i) ==
    /\ inv[i].pc = "direct"
    /\ \E putOk \in Outcomes :
         IF putOk /\ \A n \in 1..Len(inv[i].sorted_chunks) : Accessible(inv[i].sorted_chunks[n])
         THEN /\ objects' = PutOutput(objects, OutputKey(i, inv[i].clean_filename),
                                       inv[i].sorted_chunks)
              /\ merged' = [merged EXCEPT ![i] = inv[i].sorted_chunks]
              /\ inv' = [inv EXCEPT ![i] =
                            [@ EXCEPT !.pc = "finalize",
                                      !.clean_filename = inv[i].manifest.originalFileName]]
         ELSE /\ inv' = [inv EXCEPT ![i] = Finish(@, "failure")]
              /\ UNCHANGED <<objects, merged>>
    /\ UNCHANGED <<hidden, removed, chunkSize, faults, manifestDoc, registry, resources, uploads, clock>>

\* the Resources item finalize_reassembly puts
ResourceItem(rid, s, fileName, key) ==
    [resourceId |-> rid, bookingId |-> Booking, sessionId |-> s, fileName |-> fileName,
     s3Key |-> key, resourceType |-> "geotiff"]

\* a finalize that puts the Resources item before it has probed the output
FinalizeRecordsFirst(i) ==
    /\ inv[i].pc = "finalize"
    /\ \E headOk \in Outcomes :
         inv' = [inv EXCEPT ![i] = IF headOk THEN [@ EXCEPT !.pc = "record"]
                                   ELSE Finish(@, "failure")]
    /\ resources' = resources \cup
                       {ResourceItem(i, inv[i].session, inv[i].clean_filename,
                                     OutputKey(i, CleanFilename(inv[i].manifest.originalFileName)))}
    /\ UNCHANGED <<objects, hidden, removed, chunkSize, faults, manifestDoc, registry, uploads, merged, clock>>

\* finalize_reassembly: generate_presigned_url and head_object on the output
Finalize(i) ==
    /\ inv[i].pc = "finalize"
    /\ \E headOk \in Outcomes :
         inv' = [inv EXCEPT ![i] = IF headOk THEN [@ EXCEPT !.pc = "record"]
                                   ELSE Finish(@, "failure")]
    /\ UNCHANGED <<objects, hidden, removed, chunkSize, faults, manifestDoc, registry, resources, uploads, merged, clock>>

\* a finalize that gives up when one of its table writes raises
RecordOrFail(i) ==
    /\ inv[i].pc = "record"
    /\ LET s == inv[i].session
           out == OutputKey(i, CleanFilename(inv[i].manifest.originalFileName))
       IN \E resOk \in Outcomes, sessOk \in Outcomes :
            /\ resources' = IF resOk
                            THEN resources \cup {ResourceItem(i, s, inv[i].clean_filename, out)}
                            ELSE resources
            /\ registry' = IF resOk /\ sessOk
                           THEN [registry EXCEPT ![s] = MarkCompleted(@, i)]
                           ELSE registry
            /\ inv' = [inv EXCEPT ![i] = Finish(@, IF resOk /\ sessOk THEN "success" ELSE "failure")]
    /\ UNCHANGED <<objects, hidden, removed, chunkSize, faults, manifestDoc, uploads, merged, clock>>

\* finalize_reassembly: put_item on Resources, update_item on the session, the
\* success result
Record(i) ==
    /\ inv[i].pc = "record"
    /\ LET s == inv[i].session
           out == OutputKey(i, CleanFilename(inv[i].manifest.originalFileName))
       IN \E resOk \in Outcomes, sessOk \in Outcomes :
            /\ resources' = IF resOk
                            THEN resources \cup {ResourceItem(i, s, inv[i].clean_filename, out)}
                            ELSE resources
            /\ registry' = IF sessOk
                           THEN [registry EXCEPT ![s] = MarkCompleted(@, i)]
                           ELSE registry
            /\ inv' = [inv EXCEPT ![i] = Finish(@, "success")]
    /\ UNCHANGED <<objects, hidden, removed, chunkSize, faults, manifestDoc, uploads, merged, clock>>

\* ------------------------------------------------------------ the system

Next ==
    \/ \E s \in Sessions, d \in ManifestDocs : PutManifest(s, d)
    \/ \E k \in ChunkKeys, v \in BOOLEAN : UploadChunk(k, v)
    \/ \E k \in ChunkKeys : RevealChunk(k)
    \/ \E k \in RemovableKeys : RemoveChunk(k)
    \/ Tick
    \/ \E i \in Invocations, s \in Sessions, w \in BOOLEAN : TriggerApi(i, s, w)
    \/ \E i \in Invocations, s \in Sessions : TriggerS3(i, s)
    \/ \E i \in Invocations : SweepScan(i)
    \/ \E i \in Invocations : SweepNext(i)
    \/ \E i \in Invocations : CheckAvailability(i)
    \/ \E i \in Invocations : FromManifest(i)
    \/ \E i \in Invocations : KnownKeys(i)
    \/ \E i \in Invocations : MpCopy(i)
    \/ \E i \in Invocations : MpAbort(i)
    \/ \E i \in Invocations : Direct(i)
    \/ \E i \in Invocations : Finalize(i)
    \/ \E i \in Invocations : Record(i)

Spec == Init /\ [][Next]_vars

\* ------------------------------------------- the sweeper on a settled store

\* A session as the storage event for its manifest left it when chunks were
\* still missing (registered, pending, some count recorded), once every chunk
\* has arrived and is readable, with no request or event in flight and the
\* store and the tables answering every call.
LiveInit ==
    /\ hidden = {}
    /\ removed = {}
    /\ chunkSize \in ChunkSizes
    /\ faults = FALSE
    /\ resources = {}
    /\ uploads = [i \in Invocations |-> NoUpload]
    /\ merged = [i \in Invocations |-> <<>>]
    /\ clock = 0
    /\ inv = [i \in Invocations |-> IdleInv]
    /\ manifestDoc \in [Sessions -> ManifestDocs]
    /\ \E extra \in SUBSET ChunkKeys :
         objects = {ManifestKey(s) : s \in Sessions}
                      \cup {ChunkKey(s, p) : s \in Sessions, p \in 0..(MaxChunks - 2)}
                      \cup {ChunkKey(s, manifestDoc[s].totalChunks - 1) : s \in Sessions}
                      \cup extra
    /\ \E counted \in [Sessions -> 0..(MaxChunks - 1)] :
         registry = [s \in Sessions |->
                        [status |-> "pending", shaped |-> TRUE,
                         totalChunks |-> manifestDoc[s].totalChunks,
                         chunksUploaded |-> counted[s], lastUpdated |-> 0,
                         finalResourceId |-> "none", reassembledUrl |-> "none",
                         errorMessage |-> "none"]]

\* Only the clock and the sweeper run.
LiveNext ==
    \/ Tick
    \/ \E i \in Invocations : SweepScan(i)
    \/ \E i \in Invocations : SweepNext(i)
    \/ \E i \in Invocations : FromManifest(i)
    \/ \E i \in Invocations : KnownKeys(i)
    \/ \E i \in Invocations : MpCopy(i)
    \/ \E i \in Invocations : Direct(i)
    \/ \E i \in Invocations : Finalize(i)
    \/ \E i \in Invocations : Record(i)

\* Time passes, the schedule keeps starting sweeps, and a started handler runs on.
LiveFairness ==
    /\ WF_vars(Tick)
    /\ \A i \in Invocations :
         /\ WF_vars(SweepScan(i))
         /\ WF_vars(SweepNext(i))
         /\ WF_vars(FromManifest(i))
         /\ WF_vars(KnownKeys(i))
         /\ WF_vars(MpCopy(i))
         /\ WF_vars(Direct(i))
         /\ WF_vars(Finalize(i))
         /\ WF_vars(Record(i))

LiveSpec == LiveInit /\ [][LiveNext]_vars /\ LiveFairness

\* --------------------------------------- the sweeper with several candidates

\* Two sessions of the booking registered by their storage events and pending
\* for longer than the staleness window, with any part of their chunks in the
\* bucket, some of them not readable yet.
SweeperInit ==
    /\ removed = {}
    /\ chunkSize \in ChunkSizes
    /\ faults = TRUE
    /\ resources = {}
    /\ uploads = [i \in Invocations |-> NoUpload]
    /\ merged = [i \in Invocations |-> <<>>]
    /\ clock = TickSeconds
    /\ inv = [i \in Invocations |-> IdleInv]
    /\ manifestDoc \in [SweptSessions -> ManifestDocs]
    /\ \E present \in SUBSET SweptChunkKeys :
         /\ objects = {ManifestKey(s) : s \in SweptSessions} \cup present
         /\ hidden \in SUBSET present
    /\ registry = [s \in SweptSessions |->
                      [status |-> "pending", shaped |-> TRUE,
                       totalChunks |-> manifestDoc[s].totalChunks,
                       chunksUploaded |-> 0, lastUpdated |-> 0,
                       finalResourceId |-> "none", reassembledUrl |-> "none",
                       errorMessage |-> "none"]]

\* Only the sweeper runs, one sweep at a time.
SweeperNext ==
    \/ SweepScan(InvOrder[1])
    \/ \E i \in Invocations : SweepNext(i)
    \/ \E i \in Invocations : FromManifest(i)
    \/ \E i \in Invocations : KnownKeys(i)
    \/ \E i \in Invocations : MpCopy(i)
    \/ \E i \in Invocations : MpAbort(i)
    \/ \E i \in Invocations : Direct(i)
    \/ \E i \in Invocations : Finalize(i)
    \/ \E i \in Invocations : Record(i)

SweeperSpec == SweeperInit /\ [][SweeperNext]_vars

\* --------------------------------------------------------- the dispatcher

\* lambda_handler: the if/elif chain over the event.  "raise" where a test
\* itself raises ('body' in None, or .lower() of a 'detail-type' that is not a
\* string)
Classify(ev) ==
    IF ~ev.mapping THEN "raise"
    ELSE IF ev.body THEN "api"
    ELSE IF ev.records THEN "s3"
    ELSE IF ev.detail
         THEN IF ev.detailType = "null" THEN "raise"
              ELSE IF ev.detailType = "Scheduled Event" THEN "scheduled"
              ELSE "invalid"
    ELSE "invalid"

\* A return before any work on a session has started
Returned(base, result) == [base EXCEPT !.pc = "done", !.result = result]

\* the exception leaves lambda_handler
Uncaught(base) == Returned(base, "unhandled")

\* lambda_handler's except branch: statusCode 500, 'Internal server error'
Caught(base) == Returned(base, "internal_error")

ReturnsAtOnce(i, r) ==
    /\ CanStart(i)
    /\ inv' = [inv EXCEPT ![i] = r]
    /\ UNCHANGED <<objects, hidden, removed, chunkSize, faults, manifestDoc, registry, resources, uploads, merged, clock>>

\* What handle_api_request reads from the body: whether it is a JSON object at
\* all, and which of bookingId, sessionId, manifestKey it carries
ApiBodies ==
    [object : BOOLEAN, bookingId : BOOLEAN, sessionId : BOOLEAN, manifestKey : BOOLEAN]

\* reassemble_chunks without resource_id and file_pattern: the scan for the
\* booking's pending sessions, the first item's manifest, and the merge
ReassembleChunks(i, base) ==
    /\ CanStart(i)
    /\ \E scanOk \in Outcomes, getOk \in Outcomes :
         LET pending == {s \in DOMAIN registry : registry[s].status = "pending"}
         IN IF scanOk /\ pending # {}
            THEN \E s \in pending :
                   LET m == IF registry[s].shaped THEN DownloadManifest(s, getOk) ELSE NoManifest
                       r == [base EXCEPT !.kind = "request", !.session = s, !.manifest = m]
                   IN IF m # NoManifest THEN FromManifestStep(i, r) ELSE BySessionStep(i, r)
            ELSE /\ inv' = [inv EXCEPT ![i] = Returned(base, "failure")]
                 /\ UNCHANGED <<objects, hidden, removed, chunkSize, faults, manifestDoc, registry, resources, uploads, merged, clock>>

\* handle_api_request: the body, the bookingId test, and the branch on sessionId.
\* A body that parses to something else than an object raises at body.get.
HandleApiEvent(i, base) ==
    \E body \in ApiBodies :
       IF ~body.object THEN ReturnsAtOnce(i, Caught(base))
       ELSE IF ~body.bookingId THEN ReturnsAtOnce(i, Returned(base, "bad_request"))
       ELSE IF body.sessionId
            THEN \E s \in Sessions : HandleApiRequest(i, s, body.manifestKey, base)
       ELSE ReassembleChunks(i, base)

\* What event['Records'][0] names: a manifest, another key, or nothing usable
S3Records == {"manifest", "other", "malformed"}

\* handle_s3_trigger from its first line: a malformed record raises into the
\* handler's own except (500), a key that is no manifest is ignored (200)
HandleS3Event(i, base) ==
    \E rec \in S3Records :
       IF rec = "malformed" THEN ReturnsAtOnce(i, Returned(base, "failure"))
       ELSE IF rec = "other" THEN ReturnsAtOnce(i, Returned(base, "ignored"))
       ELSE \E s \in Sessions : HandleS3Trigger(i, s, base)

lambda_handler(i, ev) ==
    LET at(h) == [IdleInv EXCEPT !.dispatch = [handler |-> h, event |-> ev]]
    IN CASE Classify(ev) = "api" -> HandleApiEvent(i, at("api"))
         [] Classify(ev) = "s3" -> HandleS3Event(i, at("s3"))
         [] Classify(ev) = "scheduled" -> HandleScheduledCheck(i, at("scheduled"))
         [] Classify(ev) = "invalid" -> ReturnsAtOnce(i, Returned(at("unknown"), "invalid_trigger"))
         [] Classify(ev) = "raise" -> ReturnsAtOnce(i, Caught(at("except")))

\* One step of a handler that is under way
HandlerStep(i) ==
    \/ CheckAvailability(i)
    \/ SweepNext(i)
    \/ FromManifest(i)
    \/ KnownKeys(i)
    \/ MpCopy(i)
    \/ MpAbort(i)
    \/ Direct(i)
    \/ Finalize(i)
    \/ Record(i)

\* The stores as one invocation may find them: any chunks, listed or not yet
\* readable, a manifest or none, the session registered or not.
DispatchInit ==
    /\ removed = {}
    /\ chunkSize \in ChunkSizes
    /\ faults = TRUE
    /\ resources = {}
    /\ uploads = [i \in Invocations |-> NoUpload]
    /\ merged = [i \in Invocations |-> <<>>]
    /\ clock = TickSeconds
    /\ inv = [i \in Invocations |-> IdleInv]
    /\ manifestDoc \in [Sessions -> {BadDoc} \cup ManifestDocs]
    /\ \E present \in SUBSET ChunkKeys, blobs \in SUBSET Sessions :
         /\ \A s \in Sessions : manifestDoc[s].valid => s \in blobs
         /\ objects = {ManifestKey(s) : s \in blobs} \cup present
         /\ hidden \in SUBSET present
    /\ \E registered \in SUBSET {s \in Sessions : manifestDoc[s].valid} :
         registry = [s \in Sessions |->
                       IF s \in registered
                       THEN [status |-> "pending", shaped |-> TRUE,
                             totalChunks |-> manifestDoc[s].totalChunks,
                             chunksUploaded |-> 0, lastUpdated |-> 0,
                             finalResourceId |-> "none", reassembledUrl |-> "none",
                             errorMessage |-> "none"]
                       ELSE NoItem]

\* One invocation, from the event to its return.
DispatchNext ==
    \/ \E ev \in EventShapes : lambda_handler(InvOrder[1], ev)
    \/ \E i \in Invocations : CheckAvailability(i)
    \/ \E i \in Invocations : SweepNext(i)
    \/ \E i \in Invocations : FromManifest(i)
    \/ \E i \in Invocations : KnownKeys(i)
    \/ \E i \in Invocations : MpCopy(i)
    \/ \E i \in Invocations : MpAbort(i)
    \/ \E i \in Invocations : Direct(i)
    \/ \E i \in Invocations : Finalize(i)
    \/ \E i \in Invocations : Record(i)

DispatchSpec == DispatchInit /\ [][DispatchNext]_vars

\* ------------------------------------------- discovery over a mixed booking

\* A booking folder that holds, next to the session's own chunks, chunks of a
\* session with a longer id and chunks that name no session; the manifest is
\* there and registered, or there is none.  The uploader used one naming for the
\* session's chunks.  Nothing fails and nothing is hidden.
DiscoveryInit ==
    /\ hidden = {}
    /\ removed = {}
    /\ chunkSize \in ChunkSizes
    /\ faults = FALSE
    /\ resources = {}
    /\ uploads = [i \in Invocations |-> NoUpload]
    /\ merged = [i \in Invocations |-> <<>>]
    /\ clock = TickSeconds
    /\ inv = [i \in Invocations |-> IdleInv]
    /\ manifestDoc \in [Sessions -> {BadDoc} \cup ManifestDocs]
    /\ \E own \in (SUBSET ChunkKeys) \cup {{FileStyleKey(s)} : s \in Sessions},
          other \in SUBSET OtherSessionKeys,
          bare \in SUBSET BareKeys :
         objects = {ManifestKey(s) : s \in {x \in Sessions : manifestDoc[x].valid}}
                      \cup own \cup other \cup bare
    /\ registry = [s \in Sessions |->
                      IF manifestDoc[s].valid
                      THEN [status |-> "pending", shaped |-> TRUE,
                            totalChunks |-> manifestDoc[s].totalChunks,
                            chunksUploaded |-> 0, lastUpdated |-> 0,
                            finalResourceId |-> "none", reassembledUrl |-> "none",
                            errorMessage |-> "none"]
                      ELSE NoItem]

\* Direct requests and storage events on that folder, up to two of them.
DiscoveryNext ==
    \/ \E i \in Invocations, s \in Sessions, withKey \in BOOLEAN : TriggerApi(i, s, withKey)
    \/ \E i \in Invocations, s \in Sessions : TriggerS3(i, s)
    \/ \E i \in Invocations : CheckAvailability(i)
    \/ \E i \in Invocations : FromManifest(i)
    \/ \E i \in Invocations : KnownKeys(i)
    \/ \E i \in Invocations : MpCopy(i)
    \/ \E i \in Invocations : Direct(i)
    \/ \E i \in Invocations : Finalize(i)
    \/ \E i \in Invocations : Record(i)

DiscoverySpec == DiscoveryInit /\ [][DiscoveryNext]_vars

\* --------------------------------------- a bucket shared by several bookings

\* The bucket holds, next to this booking's folder (any of the session's chunks,
\* its manifest registered or none), chunks in the folders of other bookings
\* that carry the same session id.  Nothing fails and nothing is hidden.
IsolationInit ==
    /\ hidden = {}
    /\ removed = {}
    /\ chunkSize \in ChunkSizes
    /\ faults = FALSE
    /\ resources = {}
    /\ uploads = [i \in Invocations |-> NoUpload]
    /\ merged = [i \in Invocations |-> <<>>]
    /\ clock = TickSeconds
    /\ inv = [i \in Invocations |-> IdleInv]
    /\ manifestDoc \in [Sessions -> {BadDoc} \cup ManifestDocs]
    /\ \E own \in SUBSET ChunkKeys, foreign \in SUBSET ForeignKeys :
         objects = {ManifestKey(s) : s \in {x \in Sessions : manifestDoc[x].valid}}
                      \cup own \cup foreign
    /\ registry = [s \in Sessions |->
                      IF manifestDoc[s].valid
                      THEN [status |-> "pending", shaped |-> TRUE,
                            totalChunks |-> manifestDoc[s].totalChunks,
                            chunksUploaded |-> 0, lastUpdated |-> 0,
                            finalResourceId |-> "none", reassembledUrl |-> "none",
                            errorMessage |-> "none"]
                      ELSE NoItem]

\* Direct requests and storage events for this booking, up to two of them.
IsolationNext ==
    \/ \E i \in Invocations, s \in Sessions, withKey \in BOOLEAN : TriggerApi(i, s, withKey)
    \/ \E i \in Invocations, s \in Sessions : TriggerS3(i, s)
    \/ \E i \in Invocations : CheckAvailability(i)
    \/ \E i \in Invocations : FromManifest(i)
    \/ \E i \in Invocations : KnownKeys(i)
    \/ \E i \in Invocations : MpCopy(i)
    \/ \E i \in Invocations : Direct(i)
    \/ \E i \in Invocations : Finalize(i)
    \/ \E i \in Invocations : Record(i)

IsolationSpec == IsolationInit /\ [][IsolationNext]_vars

\* ------------------------------------------------------------- properties

Terminal == {"completed", "failed"}

\* The invocation is inside reassemble_chunks_with_known_keys or what it calls
Merging(i) ==
    inv[i].pc \in {"known_keys", "mp_copy", "mp_abort", "direct", "finalize", "record"}

\* This step is invocation i's call of check_chunks_availability returning
CheckReturns(i) ==
    /\ inv[i].pc = "check" \/ (inv[i].pc = "sweep_next" /\ inv[i].todo # <<>>)
    /\ inv'[i] # inv[i]
    /\ inv'[i].pc = "from_manifest" \/ inv'[i].result = "not_ready"

\* This step is invocation i returning a failure result for its session
ReturnsFailure(i) ==
    /\ inv[i].pc \notin {"done", "finalize", "record"}
    /\ inv'[i] # inv[i]
    /\ inv'[i].pc \in {"done", "sweep_next"}
    /\ inv'[i].result = "failure"

\* C1: no step takes a session whose status is completed or failed back to
\* pending; in particular a repeated storage-creation event for its manifest
\* (register_chunks_from_manifest run again) leaves the status as it is.
C1_NoRegressionToPending ==
    [][\A s \in Sessions :
          registry[s].status \in Terminal => registry'[s].status # "pending"]_vars

\* C2: completed and failed are terminal with respect to each other: no step
\* takes a completed session to failed, nor a failed session to completed.
C2_TerminalStatesExclusive ==
    [][\A s \in Sessions :
          /\ ~(registry[s].status = "completed" /\ registry'[s].status = "failed")
          /\ ~(registry[s].status = "failed" /\ registry'[s].status = "completed")]_vars

\* C3: the pending-to-merging transition is guarded: of the invocations running
\* at the same time for one session, at most one is merging.
C3_AtMostOneMerge ==
    \A i \in Invocations, j \in Invocations :
        (i # j /\ Merging(i) /\ Merging(j)) => inv[i].session # inv[j].session

\* C4: finalization is idempotent per session: in every reachable state at most
\* one Resources item exists for any sessionId.
C4_OneResourcePerSession ==
    \A a \in resources, b \in resources : a.sessionId = b.sessionId => a = b

\* C5: no merge is performed for a session while fewer than totalChunks chunk
\* objects of it exist, whatever the trigger: an invocation's merge output is
\* written only when the store holds at least totalChunks chunks of the session.
C5_MergeOnlyWhenAllChunks ==
    [][\A i \in Invocations :
          (/\ inv[i].pc \in {"mp_copy", "direct"}
           /\ inv'[i].pc = "finalize"
           /\ ManifestKey(inv[i].session) \in objects)
          => Cardinality({p \in 0..(MaxChunks - 1) : ChunkKey(inv[i].session, p) \in objects})
                >= manifestDoc[inv[i].session].totalChunks]_vars

\* C6: when an invocation returns a failure out of a merge (size probing, copy,
\* completion, download or final upload) for a session that has a registry
\* item, that item's status is failed and its errorMessage is set.
C6_MergeFailureMarksFailed ==
    [][\A i \in Invocations :
          (/\ inv[i].pc \in {"known_keys", "mp_copy", "mp_abort", "direct"}
           /\ ReturnsFailure(i)
           /\ registry[inv[i].session].status # "none")
          => /\ registry'[inv[i].session].status = "failed"
             /\ registry'[inv[i].session].errorMessage # "none"]_vars

C8_DiscoveryExhaustedStaysPending ==
    [][\A i \in Invocations :
          (/\ inv[i].pc \in {"idle", "from_manifest", "sweep_next"}
           /\ ReturnsFailure(i)
           /\ ManifestDiscovery(ListPrefix(objects, <<Booking, "/">>), inv'[i].session) = {}
           /\ registry[inv'[i].session].status = "pending")
          => registry'[inv'[i].session].status = "pending"]_vars

\* C9: check_chunks_availability returns not-ready for any count below N: it
\* returns ready only if at least totalChunks accessible candidate chunks of the
\* session are in the store at the time of the call, also when an earlier call
\* recorded chunksUploaded = totalChunks.
C9_ReadyOnlyIfAllAccessible ==
    [][\A i \in Invocations :
          (CheckReturns(i) /\ inv'[i].pc = "from_manifest")
          => Cardinality({k \in AvailabilityCandidates(objects, inv'[i].session) :
                             Accessible(k)})
                >= manifestDoc[inv'[i].session].totalChunks]_vars

\* C10: a call of check_chunks_availability on a registered session that
\* returns ready (by its own count or by an already recorded one), or that finds
\* enough candidates and a probe of the first or last one failing, writes the
\* current candidate count to chunksUploaded and the current time to lastUpdated.
C10_CheckWritesCount ==
    [][\A i \in Invocations :
          LET s == inv'[i].session
              keys == AvailabilityCandidates(objects, s)
          IN (/\ CheckReturns(i)
              /\ registry[s].status # "none"
              /\ \/ inv'[i].pc = "from_manifest"
                 \/ /\ Cardinality(keys) >= manifestDoc[s].totalChunks
                    /\ ~(Accessible(FirstKey(keys)) /\ Accessible(LastKey(keys))))
             => /\ registry'[s].chunksUploaded = Cardinality(keys)
                /\ registry'[s].lastUpdated = clock]_vars

\* The part index a chunk key is named by: the digits after ".part"
PartIndex(key) == DigitVal(key[Len(key)])

Ascending(sq) ==
    \A a \in 1..Len(sq), b \in 1..Len(sq) : a < b => PartIndex(sq[a]) < PartIndex(sq[b])

\* C11: whatever order the chunk keys arrive in, the parts handed to the copy
\* loop or to the direct download, and the chunks of every merged object, are
\* in ascending part-index order, each chunk once.
C11_MergeOrderAscending ==
    \A i \in Invocations :
        /\ Ascending(inv[i].sorted_chunks)
        /\ Ascending(merged[i])
        /\ inv[i].pc \in {"mp_copy", "direct"} =>
              {inv[i].sorted_chunks[n] : n \in 1..Len(inv[i].sorted_chunks)} = inv[i].chunk_keys

\* A merged object made of more than one chunk
C11_MergedSeveralChunks ==
    \E i \in Invocations : Len(merged[i]) >= 2 /\ OutputKey(i, <<"scan", ".tif">>) \in objects

\* C12: reassemble_chunks_with_known_keys takes the direct path if and only if
\* some chunk other than the last is smaller than 5 MiB, and the multipart
\* path otherwise.
C12_DirectIffSmallNonLastChunk ==
    [][\A i \in Invocations :
          (inv[i].pc = "known_keys" /\ inv'[i].pc \in {"direct", "mp_copy"})
          => (inv'[i].pc = "direct"
                <=> \E n \in 1..(Len(inv'[i].sorted_chunks) - 1) :
                       SizeOf(inv'[i].sorted_chunks[n]) < MinPartSizeMiB)]_vars

\* Two chunks with only the last one short go to the multipart path
C12_ShortLastChunkMultipart ==
    \E i \in Invocations :
        /\ inv[i].pc = "mp_copy"
        /\ Len(inv[i].sorted_chunks) = 2
        /\ SizeOf(inv[i].sorted_chunks[2]) < MinPartSizeMiB

\* C13: a manifest that cannot be fetched or parsed does not fail the
\* invocation by itself: no invocation ends with the manifest-not-found result
\* while chunks of its session are discoverable by path or filename.
C13_ManifestInvalidFallsBack ==
    [][\A i \in Invocations :
          (inv'[i] # inv[i] /\ inv'[i].result = "not_found")
          => LET all == ListPrefix(objects, <<Booking, "/">>)
             IN PathChunks(all, inv'[i].session) \cup FilenameChunks(all, inv'[i].session) = {}]_vars

C15_SweepSkipsFailed ==
    [][\A i \in Invocations :
          (/\ inv[i].kind = "sweep"
           /\ inv[i].pc \in {"sweep_next", "from_manifest"}
           /\ inv'[i].pc = "known_keys")
          => registry[inv'[i].session].status # "failed"]_vars

C17_BookkeepingFailureStillSuccess ==
    [][\A i \in Invocations :
          (inv[i].pc = "record" /\ inv'[i] # inv[i])
          => /\ inv'[i].result = "success"
             /\ \E k \in objects' : StartsWith(k, <<Booking, "/", "reassembled_", i>>)]_vars

\* An invocation returned success although neither table holds its resource id
C17_SuccessWithoutRecords ==
    \E i \in Invocations :
        /\ inv[i].pc = "done"
        /\ inv[i].result = "success"
        /\ \A r \in resources : r.resourceId # i
        /\ \A s \in Sessions : registry[s].finalResourceId # i
        /\ \E k \in objects : StartsWith(k, <<Booking, "/", "reassembled_", i>>)

\* C18: in every reachable state a completed session has finalResourceId and
\* reassembledUrl set, and the Resources table holds an item with that
\* resourceId, resourceType geotiff and the session's id.
C18_CompletedHasResource ==
    \A s \in Sessions :
        registry[s].status = "completed"
        => /\ registry[s].finalResourceId # "none"
           /\ registry[s].reassembledUrl # "none"
           /\ \E r \in resources :
                 /\ r.resourceId = registry[s].finalResourceId
                 /\ r.resourceType = "geotiff"
                 /\ r.sessionId = s

\* The three shapes an invocation can have, as the dispatcher's contract names them
IsDirectRequest(ev) == ev.mapping /\ ev.body

IsStorageEvent(ev) == ev.mapping /\ ev.records

IsScheduledSweep(ev) == ev.mapping /\ ev.detail /\ ev.detailType = "Scheduled Event"

\* Every store and table, and the uploads and outputs held in the bucket
AllStores == <<objects, hidden, removed, manifestDoc, registry, resources, uploads, merged>>

\* C19: the dispatcher runs the handler of exactly one of the three shapes the
\* event has (direct request, storage event, scheduled sweep) and no other; an
\* event of none of the three shapes returns the invalid-trigger failure, and
\* that step writes to no store.
C19_OneHandlerElseInvalidTrigger ==
    [][\A i \in Invocations :
          (inv[i].pc = "idle" /\ inv'[i].pc # "idle" /\ inv'[i].dispatch.handler # "none") =>
             LET d == inv'[i].dispatch
                 ev == d.event
             IN /\ d.handler = "api" => IsDirectRequest(ev)
                /\ d.handler = "s3" => IsStorageEvent(ev)
                /\ d.handler = "scheduled" => IsScheduledSweep(ev)
                /\ (IsDirectRequest(ev) \/ IsStorageEvent(ev) \/ IsScheduledSweep(ev))
                      => d.handler \in {"api", "s3", "scheduled"}
                /\ ~(IsDirectRequest(ev) \/ IsStorageEvent(ev) \/ IsScheduledSweep(ev))
                      => /\ inv'[i].pc = "done"
                         /\ inv'[i].result = "invalid_trigger"
                         /\ UNCHANGED AllStores]_vars

\* What a caller can get back: a status code with a JSON body
StructuredResults ==
    {"success", "failure", "not_ready", "not_found", "ignored", "bad_request",
     "invalid_trigger", "internal_error"}

\* C20: every invocation of the dispatcher ends with a structured result: an
\* invocation that has returned holds one of the results above (never an
\* exception that left lambda_handler), and one that is under way can always
\* take its next step, whatever store call failed before.
C20_AlwaysStructuredResult ==
    \A i \in Invocations :
       /\ inv[i].pc = "done" => inv[i].result \in StructuredResults
       /\ inv[i].pc \notin {"idle", "done"} => ENABLED HandlerStep(i)

\* C20 witness: an exception raised inside handle_api_request was turned into
\* the 500 result by lambda_handler
C20_CaughtInHandler ==
    \E i \in Invocations :
       /\ inv[i].pc = "done"
       /\ inv[i].dispatch.handler = "api"
       /\ inv[i].result = "internal_error"

\* The booking folder as the paginator returns it
BookingListing == ListingOrder(ListPrefix(objects, <<Booking, "/">>))

NoDuplicates(sq) == \A m \in DOMAIN sq, n \in DOMAIN sq : m # n => sq[m] # sq[n]

\* C21: for every listing of the booking folder, the chunk keys discovery
\* returns (without a manifest and with one) hold no key twice, are all keys of
\* the listing, and none of them is a manifest file; the keys an invocation
\* works on are such a set.
C21_DiscoverySubsetNoManifest ==
    /\ \A s \in Sessions, listing \in {BookingListing} :
          \A l \in SessionChunkLists(listing, s) \cup ManifestChunkLists(listing, s) :
             /\ NoDuplicates(l)
             /\ SetOf(l) \subseteq SetOf(listing)
             /\ \A k \in SetOf(l) : ~IsManifestFile(k)
    /\ \A i \in Invocations :
          /\ inv[i].chunk_keys \subseteq objects
          /\ \A k \in inv[i].chunk_keys : ~IsManifestFile(k)

\* C21 witness: discovery ran on a folder that holds the manifest, and found a
\* chunk both by path and by filename (the duplicate set() removes)
C21_DiscoveredBesideManifest ==
    \E i \in Invocations :
       /\ inv[i].pc = "known_keys"
       /\ ManifestKey(inv[i].session) \in objects
       /\ \E k \in inv[i].chunk_keys :
             /\ k \in SetOf(PathChunksList(BookingListing, inv[i].session))
             /\ k \in SetOf(FilenameChunksList(BookingListing, inv[i].session))

\* C22: discovery does not depend on the order of the listing: for every order
\* of the folder's keys, the chunk key sets discovery may return (without a
\* manifest and with one) are those it returns for the keys in key order, also
\* when two base-name groups of the fallback have the same size.
C22_DiscoveryIgnoresListingOrder ==
    \A s \in Sessions, sorted \in {BookingListing} :
       \A l \in ListsOf(SetOf(sorted)) :
          /\ {SetOf(x) : x \in SessionChunkLists(l, s)}
                = {SetOf(x) : x \in SessionChunkLists(sorted, s)}
          /\ {SetOf(x) : x \in ManifestChunkLists(l, s)}
                = {SetOf(x) : x \in ManifestChunkLists(sorted, s)}

\* No listed key correlates to the session by path, filename or tag
NoCorrelation(s) ==
    LET all == ListPrefix(objects, <<Booking, "/">>)
    IN PathChunks(all, s) \cup FilenameChunks(all, s) \cup MetadataChunks(all, s) = {}

\* C23: when no listed key correlates to the session, the working set of an
\* invocation, on the manifest-driven path as on the session-only path, is one
\* base-name group of the .partN objects with the most members, and what it
\* merges is that group alone.
C23_FallbackUsesLargestGroupOnly ==
    \A i \in Invocations :
       LET groups == BestGroups(ListPrefix(objects, <<Booking, "/">>))
       IN (inv[i].session # "none" /\ NoCorrelation(inv[i].session)) =>
             /\ inv[i].chunk_keys # {} => inv[i].chunk_keys \in groups
             /\ merged[i] # <<>> => SetOf(merged[i]) \in groups

\* C24: in every reachable state a session record whose status is pending has
\* 0 <= chunksUploaded <= totalChunks.
C24_PendingCountWithinTotal ==
    \A s \in DOMAIN registry :
       registry[s].status = "pending" =>
          /\ 0 <= registry[s].chunksUploaded
          /\ registry[s].chunksUploaded <= registry[s].totalChunks

\* The availability check of session s with the given total would probe, and a
\* probe would fail: enough candidate keys, the recorded count is not the total
\* yet, and the first or the last key cannot be read
ProbeWouldFail(s, total) ==
    LET keys == AvailabilityCandidates(objects, s)
    IN /\ registry[s].status # "none"
       /\ registry[s].chunksUploaded # total
       /\ keys # {}
       /\ Cardinality(keys) >= total
       /\ ~(Accessible(FirstKey(keys)) /\ Accessible(LastKey(keys)))

\* C25: when the availability check finds at least totalChunks candidates but
\* cannot read the first or the last of them, the handler returns not-ready (no
\* error result), does not go on to the merge, and leaves the session record
\* as it was.
C25_FailedProbeIsNotReady ==
    [][\A i \in Invocations :
          (/\ inv[i].pc = "check"
           /\ inv'[i] # inv[i]
           /\ ProbeWouldFail(inv[i].session, inv[i].manifest.totalChunks))
          => /\ inv'[i].pc = "done"
             /\ inv'[i].result = "not_ready"
             /\ registry' = registry
             /\ uploads' = uploads]_vars

\* C25 witness: a storage event's check has returned not-ready while the
\* session is pending with all its chunks listed and one of the probed chunks
\* unreadable
C25_NotReadyOnUnreadableChunk ==
    \E i \in Invocations :
       /\ inv[i].pc = "done"
       /\ inv[i].result = "not_ready"
       /\ inv[i].session \in Sessions
       /\ registry[inv[i].session].status = "pending"
       /\ ProbeWouldFail(inv[i].session, registry[inv[i].session].totalChunks)

\* C26: the sessions a sweep takes up are those whose record, when the sweep
\* scans, has status pending and a lastUpdated more than the staleness window
\* (120 seconds) before the scan; the sweep adds none later, so a pending
\* session updated within the window is not processed by that sweep.
C26_SweepSelectsStalePendingOnly ==
    [][\A i \in Invocations :
          /\ (inv[i].pc = "idle" /\ inv'[i].kind = "sweep") =>
                \A s \in SetOf(inv'[i].todo) :
                   /\ registry[s].status = "pending"
                   /\ registry[s].lastUpdated < clock - StalenessWindow
          /\ (inv[i].kind = "sweep" /\ inv'[i].kind = "sweep") =>
                SetOf(inv'[i].todo) \subseteq SetOf(inv[i].todo)]_vars

\* C26 witness: a sweep that scanned after the window had passed has a session
\* to process
C26_StaleSelected ==
    \E i \in Invocations :
       /\ inv[i].kind = "sweep"
       /\ inv[i].todo # <<>>
       /\ clock > StalenessWindow

IsOutputKey(k) == StartsWith(k, <<Booking, "/", "reassembled_">>)

\* C27: no step of an invocation removes an object from the bucket or changes a
\* manifest blob, every key it adds is an output key that was not there and had
\* never been written, an output once written is not written again, and no
\* session record that exists ceases to exist.
C27_InputsAndRecordsKept ==
    [][inv' # inv =>
          /\ objects \subseteq objects'
          /\ manifestDoc' = manifestDoc
          /\ \A k \in objects' \ objects :
                /\ IsOutputKey(k)
                /\ k[4] \in Invocations
                /\ merged[k[4]] = <<>>
          /\ \A j \in Invocations : merged[j] # <<>> => merged'[j] = merged[j]
          /\ \A s \in DOMAIN registry :
                registry[s].status # "none" => registry'[s].status # "none"]_vars

\* C27 witness: a merge has written its output and the record is completed,
\* and the chunks it read and the manifest are still in the bucket
C27_MergedAndInputsStillThere ==
    \E i \in Invocations, s \in Sessions :
       /\ merged[i] # <<>>
       /\ \E k \in objects : IsOutputKey(k) /\ k[4] = i
       /\ SetOf(merged[i]) \subseteq objects
       /\ ManifestKey(s) \in objects
       /\ registry[s].status = "completed"
       /\ registry[s].finalResourceId = i

C29_NoChunkOfAnotherSession ==
    /\ \A i \in Invocations :
          /\ inv[i].chunk_keys \cap OtherSessionKeys = {}
          /\ SetOf(merged[i]) \cap OtherSessionKeys = {}
    /\ \A s \in Sessions :
          registry[s].chunksUploaded
             <= Cardinality(AvailabilityCandidates(objects, s) \ OtherSessionKeys)

\* C30: no invocation selects a reassembled output as a chunk: the working set
\* of a discovery that runs after a merge wrote its output under the booking's
\* prefix holds no output key, and no output is merged into another.
C30_OutputNeverAnInput ==
    \A i \in Invocations :
       /\ \A k \in inv[i].chunk_keys : ~IsOutputKey(k)
       /\ \A k \in SetOf(merged[i]) : ~IsOutputKey(k)

\* The invocation works from the manifest blob of its session, as downloaded
ManifestDriven(i) ==
    /\ inv[i].session \in Sessions
    /\ inv[i].manifest # NoManifest
    /\ inv[i].manifest = DownloadManifest(inv[i].session, TRUE)

DistinctParts(sq) ==
    \A a \in 1..Len(sq), b \in 1..Len(sq) : a # b => PartIndex(sq[a]) # PartIndex(sq[b])

\* C31: when an invocation that works from a manifest with totalChunks = N
\* completes its session, the object it merged is made of exactly N chunks with
\* pairwise distinct part indices.
C31_ManifestMergeUsesExpectedChunks ==
    [][\A i \in Invocations :
          (/\ inv[i].pc = "record"
           /\ ManifestDriven(i)
           /\ registry'[inv[i].session].status = "completed"
           /\ registry'[inv[i].session].finalResourceId = i)
          => /\ Len(merged[i]) = inv[i].manifest.totalChunks
             /\ DistinctParts(merged[i])]_vars

\* C32: bookkeeping is written only by the step that returns success: a step of
\* an invocation that adds a Resources item or sets a session to completed ends
\* with the success result, and when an invocation returns a failure neither
\* table holds its resource id; the direct path writes its output only when
\* every chunk could be downloaded, and a multipart upload is opened only when
\* the size of every chunk could be fetched.
C32_FailureLeavesNoBookkeeping ==
    [][\A i \in Invocations :
          inv'[i] # inv[i] =>
             /\ (\/ resources' # resources
                 \/ \E s \in DOMAIN registry :
                       /\ registry'[s].status = "completed"
                       /\ \/ registry[s].status # "completed"
                          \/ registry'[s].finalResourceId # registry[s].finalResourceId)
                   => inv'[i].result = "success"
             /\ (inv'[i].result = "failure" /\ inv[i].result # "failure")
                   => /\ \A r \in resources' : r.resourceId # i
                      /\ \A s \in DOMAIN registry : registry'[s].finalResourceId # i
             /\ (inv[i].pc = "direct" /\ objects' # objects)
                   => \A n \in 1..Len(inv[i].sorted_chunks) : Accessible(inv[i].sorted_chunks[n])
             /\ (uploads[i].state = "none" /\ uploads'[i].state = "open")
                   => \A k \in inv[i].chunk_keys : Accessible(k)]_vars

\* C32 witness: an invocation wrote its merged output, failed in
\* finalize_reassembly and returned the failure; no table holds its resource id
C32_FailedAfterOutputWritten ==
    \E i \in Invocations :
       /\ inv[i].pc = "done"
       /\ inv[i].result = "failure"
       /\ merged[i] # <<>>
       /\ \E k \in objects : IsOutputKey(k) /\ k[4] = i
       /\ \A r \in resources : r.resourceId # i
       /\ \A s \in Sessions : registry[s].finalResourceId # i

\* C33: what an invocation leaves behind does not depend on the strategy that
\* merged: on the segmented path as on the direct path the output holds the
\* ordered chunks, the Resources item carries the cleaned file name (the name
\* the output key ends with), and the session is updated in the same way.
C33_StrategiesRecordAlike ==
    [][\A i \in Invocations :
          (inv[i].pc = "record" /\ inv'[i] # inv[i]) =>
             LET s == inv[i].session
                 clean == CleanFilename(inv[i].manifest.originalFileName)
             IN /\ merged[i] = inv[i].sorted_chunks
                /\ OutputKey(i, clean) \in objects
                /\ resources' = resources \cup {ResourceItem(i, s, clean, OutputKey(i, clean))}
                /\ registry' = [registry EXCEPT ![s] = MarkCompleted(@, i)]]_vars

\* C34: in every reachable state each record of the registry carries the
\* session shape (sessionId, totalChunks and the other attributes put_item
\* writes at registration, next to its status): no status update has created a
\* record where none existed.
C34_RecordsCarrySessionShape ==
    \A s \in DOMAIN registry : registry[s].status # "none" => registry[s].shaped

InBookingFolder(k) == StartsWith(k, <<Booking, "/">>)

\* C35: every chunk key an invocation for the booking selects, sorts or merges
\* begins with "{bookingId}/", and so does every key the bucket holds besides the
\* other bookings' chunks (the outputs written); what the availability check
\* counts are keys of the booking's folder; and every Resources item is the
\* booking's, with its output in the booking's folder.
C35_BookingIsolation ==
    /\ \A i \in Invocations :
          \A k \in inv[i].chunk_keys \cup SetOf(inv[i].sorted_chunks) \cup SetOf(merged[i]) :
             InBookingFolder(k)
    /\ \A k \in objects \ ForeignKeys : InBookingFolder(k)
    /\ \A s \in Sessions :
          registry[s].chunksUploaded
             <= Cardinality({k \in objects : InBookingFolder(k) /\ ~IsManifestKey(k)})
    /\ \A r \in resources : r.bookingId = Booking /\ InBookingFolder(r.s3Key)

\* C35 witness: an invocation has merged the booking's chunks and recorded the
\* output while every chunk of the other bookings was in the bucket
C35_MergedBesideOtherBookings ==
    \E i \in Invocations :
       /\ merged[i] # <<>>
       /\ ForeignKeys \subseteq objects
       /\ \E r \in resources : r.resourceId = i /\ r.s3Key \in objects

====
